---- MODULE Spec2Model ----
(***************************************************************************)
(* Model of deploy.py: a release pipeline that reads a build descriptor,   *)
(* derives a target file name, uploads the artifact to Dropbox (delete,    *)
(* upload, create shared link), extracts the latest changelog section,     *)
(* renders an email template and posts the email to a Zapier webhook.      *)
(*                                                                         *)
(* A Python str is a sequence of one-character strings; None is a value    *)
(* that is no str.  Every HTTP call returns a response with a status code. *)
(***************************************************************************)
EXTENDS Integers, Sequences, FiniteSets, TLC

VARIABLES
    pc,                 \* position of the script
    options,            \* parsed command line: app_name, email_to, dropbox_folder
    files,              \* the files the run reads: descriptor, artifact, changelog, template
    app_version,        \* get_app's first result
    target_app_file,    \* get_target_file_name's result
    DROPBOX_UPLOAD_ARGS,  \* module-level dict, its 'path' entry
    DROPBOX_SHARE_DATA,   \* module-level dict, its 'path' entry
    DROPBOX_DELETE_DATA,  \* module-level dict, its 'path' entry
    ZAPIER_SEND_DATA,     \* module-level dict {to, subject, body}
    http,               \* the requests issued so far, in order, with their responses
    artifact_opened,    \* open(source_file, 'rb') has succeeded
    file_url,           \* upload_to_dropbox's result
    latest_changes,     \* get_changes' result
    subject,            \* get_email's first result
    body,               \* get_email's second result
    sent,               \* send_email's result
    exit_code,          \* the process exit status, Running until the process ends
    raised,             \* the function whose exception ended the run, "" if none
    unit                \* a single call of one function: its arguments and its result

vars == <<pc, options, files, app_version, target_app_file, DROPBOX_UPLOAD_ARGS,
          DROPBOX_SHARE_DATA, DROPBOX_DELETE_DATA, ZAPIER_SEND_DATA, http,
          artifact_opened, file_url, latest_changes, subject, body, sent,
          exit_code, raised, unit>>

(***************************************************************************)
(* Values                                                                  *)
(***************************************************************************)
None == <<"None">>          \* Python's None: no sequence of single characters
Unset == <<"unset">>        \* a name the script has not bound yet
Raise == <<"raise">>        \* a call that ends in an uncaught exception
Unreadable == [ok |-> FALSE]                \* a file whose open(), read or parse raises
File(data) == [ok |-> TRUE, data |-> data]  \* a readable file and what it holds
NL == "\n"
CR == "\r"

DROPBOX_ERROR_CODE == 1
ZAPIER_ERROR_CODE == 2
TEMPLATE_ERROR_CODE == 3
CHANGES_ERROR_CODE == 4
codes_ok == 200             \* requests.codes.ok
SUCCESS_EXIT == 0           \* the interpreter's status when the script runs to its end
UNCAUGHT_EXIT == 1          \* the interpreter's status after an uncaught exception
Running == -1               \* the process has not ended

DROPBOX_DELETE_URL == "https://api.dropboxapi.com/2/files/delete_v2"
DROPBOX_UPLOAD_URL == "https://content.dropboxapi.com/2/files/upload"
DROPBOX_SHARE_URL == "https://api.dropboxapi.com/2/sharing/create_shared_link_with_settings"
ZAPIER_HOOK == "zapier_hook"

(***************************************************************************)
(* Python str operations                                                   *)
(***************************************************************************)
LowerMap == [A |-> "a", B |-> "b", C |-> "c", D |-> "d", E |-> "e", F |-> "f",
             G |-> "g", H |-> "h", I |-> "i", J |-> "j", K |-> "k", L |-> "l",
             M |-> "m", N |-> "n", O |-> "o", P |-> "p", Q |-> "q", R |-> "r",
             S |-> "s", T |-> "t", U |-> "u", V |-> "v", W |-> "w", X |-> "x",
             Y |-> "y", Z |-> "z"]

\* str.lower()
lower(s) == [i \in 1..Len(s) |-> IF s[i] \in DOMAIN LowerMap THEN LowerMap[s[i]] ELSE s[i]]

\* str.startswith(prefix)
startswith(s, prefix) == Len(s) >= Len(prefix) /\ SubSeq(s, 1, Len(prefix)) = prefix

Min(S) == CHOOSE i \in S : \A j \in S : i <= j
Max(S) == CHOOSE i \in S : \A j \in S : j <= i

\* str.find(sub) + 1: the place of the first occurrence of sub in s, 0 if none
find(s, sub) ==
    LET at == { i \in 1..(Len(s) - Len(sub) + 1) : SubSeq(s, i, i + Len(sub) - 1) = sub }
    IN  IF at = {} THEN 0 ELSE Min(at)

\* str.replace(old, new), old not empty: leftmost, non-overlapping occurrences
RECURSIVE replace(_, _, _)
replace(s, old, new) ==
    LET i == find(s, old)
    IN  IF i = 0 THEN s
        ELSE SubSeq(s, 1, i - 1) \o new \o replace(SubSeq(s, i + Len(old), Len(s)), old, new)

\* str.split(sep)[0]: the text before the first occurrence of sep, all of it if none
split_first(s, sep) ==
    LET i == find(s, sep)
    IN  IF i = 0 THEN s ELSE SubSeq(s, 1, i - 1)

\* s[:-1]
drop_last(s) == IF s = <<>> THEN <<>> ELSE SubSeq(s, 1, Len(s) - 1)

IsSpace(c) == c \in {" ", NL, CR, "\t"}

\* str.rstrip(): s up to its last character that is no whitespace
rstrip(s) ==
    LET kept == { i \in 1..Len(s) : ~IsSpace(s[i]) }
    IN  IF kept = {} THEN <<>> ELSE SubSeq(s, 1, Max(kept))

\* str.splitlines(): lines end at \n, \r or \r\n; no empty last line
RECURSIVE splitlines(_)
splitlines(s) ==
    LET breaks == { i \in 1..Len(s) : s[i] \in {NL, CR} }
    IN  IF s = <<>> THEN <<>>
        ELSE IF breaks = {} THEN <<s>>
        ELSE LET i == Min(breaks)
                 n == IF s[i] = CR /\ i < Len(s) /\ s[i + 1] = NL THEN 2 ELSE 1
             IN  <<SubSeq(s, 1, i - 1)>> \o splitlines(SubSeq(s, i + n, Len(s)))

(***************************************************************************)
(* get_target_file_name                                                    *)
(***************************************************************************)
\* a lost final replace(' ', ''): spaces stay in the file name
get_target_file_name_keeps_spaces(app_name, version) ==
    lower(app_name) \o <<"_">> \o replace(version, <<".">>, <<"_">>) \o <<".", "a", "p", "k">>

get_target_file_name(app_name, version) ==
    LET name == lower(app_name)
        ver == replace(version, <<".">>, <<"_">>)
    IN  replace(name \o <<"_">> \o ver \o <<".", "a", "p", "k">>, <<" ">>, <<>>)

(***************************************************************************)
(* get_changes                                                             *)
(***************************************************************************)
\* re.sub('^#.*\n?', '', s, flags=re.MULTILINE): '^' matches where a line starts,
\* '#.*\n?' the whole of a line that starts with '#', its \n included
RECURSIVE re_sub_headings(_)
re_sub_headings(s) ==
    IF s = <<>> THEN <<>>
    ELSE LET i == find(s, <<NL>>)
             line == IF i = 0 THEN s ELSE SubSeq(s, 1, i)
             rest == IF i = 0 THEN <<>> ELSE SubSeq(s, i + 1, Len(s))
         IN  (IF Head(line) = "#" THEN <<>> ELSE line) \o re_sub_headings(rest)

\* an empty extraction reported as None
get_changes_none_if_empty(change_log_file) ==
    IF ~change_log_file.ok THEN Raise
    ELSE LET r == re_sub_headings(drop_last(split_first(change_log_file.data, <<"#", "#">>)))
         IN  IF r = <<>> THEN None ELSE r

get_changes(change_log_file) ==
    IF ~change_log_file.ok THEN Raise
    ELSE LET change_log == change_log_file.data
             latest_version_changes == drop_last(split_first(change_log, <<"#", "#">>))
         IN  re_sub_headings(latest_version_changes)

(***************************************************************************)
(* get_email                                                               *)
(***************************************************************************)
F_app_download_url == <<"a","p","p","_","d","o","w","n","l","o","a","d","_","u","r","l">>
F_change_log == <<"c","h","a","n","g","e","_","l","o","g">>
F_app_name == <<"a","p","p","_","n","a","m","e">>
F_app_version == <<"a","p","p","_","v","e","r","s","i","o","n">>
M_subject == <<"#","s","u","b","j","e","c","t">>
M_body == <<"#","b","o","d","y">>

\* the keyword arguments of the format call, by field name
format_fields(app_name, version, app_url, changes) ==
    (F_app_download_url :> app_url) @@ (F_change_log :> changes) @@
    (F_app_name :> app_name) @@ (F_app_version :> version)

\* str.format(**kw) for plain {name} fields: {{ and }} are literal braces; a lone
\* brace, an unclosed field or a name that is no keyword raises
RECURSIVE format(_, _)
format(s, kw) ==
    LET braces == { i \in 1..Len(s) : s[i] \in {"{", "}"} }
    IN  IF braces = {} THEN s
        ELSE LET i == Min(braces)
                 literal == SubSeq(s, 1, i - 1)
                 after == SubSeq(s, i + 1, Len(s))
             IN  IF after # <<>> /\ Head(after) = s[i]
                 THEN LET rest == format(Tail(after), kw)
                      IN  IF rest = Raise THEN Raise ELSE literal \o <<s[i]>> \o rest
                 ELSE IF s[i] = "}" THEN Raise
                 ELSE LET close == find(after, <<"}">>)
                      IN  IF close = 0 THEN Raise
                          ELSE LET name == SubSeq(after, 1, close - 1)
                                   rest == format(SubSeq(after, close + 1, Len(after)), kw)
                               IN  IF name \notin DOMAIN kw \/ rest = Raise THEN Raise
                                   ELSE literal \o kw[name] \o rest

target_subject == 1
target_body == 2

\* the loop over template.splitlines(): <<subject, body>> when the lines are used up
RECURSIVE collect_lines(_, _, _, _)
collect_lines(lines, target, subj, bod) ==
    IF lines = <<>> THEN <<subj, bod>>
    ELSE LET line == Head(lines)
             rest == Tail(lines)
         IN  IF startswith(line, <<"#">>)
             THEN IF startswith(line, M_subject) THEN collect_lines(rest, target_subject, subj, bod)
                  ELSE IF startswith(line, M_body) THEN collect_lines(rest, target_body, subj, bod)
                  ELSE collect_lines(rest, target, subj, bod)
             ELSE IF target = target_subject
                  THEN collect_lines(rest, target, subj \o line \o <<NL>>, bod)
                  ELSE IF target = target_body
                       THEN collect_lines(rest, target, subj, bod \o line \o <<NL>>)
                       ELSE collect_lines(rest, target, subj, bod)

\* the sections returned untrimmed
get_email_without_rstrip(app_name, version, app_url, changes, template_file) ==
    IF ~template_file.ok THEN Raise
    ELSE LET template == format(template_file.data,
                                format_fields(app_name, version, app_url, changes))
         IN  IF template = Raise THEN Raise
             ELSE collect_lines(splitlines(template), 0, <<>>, <<>>)

get_email(app_name, version, app_url, changes, template_file) ==
    IF ~template_file.ok THEN Raise
    ELSE LET template == format(template_file.data,
                                format_fields(app_name, version, app_url, changes))
         IN  IF template = Raise THEN Raise
             ELSE LET got == collect_lines(splitlines(template), 0, <<>>, <<>>)
                  IN  <<rstrip(got[1]), rstrip(got[2])>>

(***************************************************************************)
(* The run's inputs                                                        *)
(***************************************************************************)
AppNames == { <<"M", "y", " ", "A", "p", "p">>, <<"a">> }
Versions == { <<"1", ".", "0", "3">>, <<"2">> }
Folders == { <<"r", "e", "l">> }
EmailTo == { <<"a", "@", "x", ",", "b", "@", "y">> }
Statuses == {200, 201, 409, 500}
\* the JSON body of the share-link response: with a 'url' member or without
ShareBodies == { [has_url |-> TRUE, url |-> <<"h", "?", "d", "l", "=", "0">>],
                 [has_url |-> TRUE, url |-> <<>>],
                 [has_url |-> FALSE] }
Descriptors == { [versionName |-> v, outputFile |-> "app-release.apk"] : v \in Versions }
ChangelogDocs ==
    { <<"#", " ", "R", NL, "f", "i", "x", NL, "#", "#", NL, "o", "l", "d">>,
      <<"n", "e", "w">>,
      <<>> }
TemplateDocs ==
    { M_subject \o <<NL, "N", "e", "w", " ", "{">> \o F_app_name \o <<"}", " ", "{">>
          \o F_app_version \o <<"}", NL>> \o M_body \o <<NL, "{">> \o F_change_log
          \o <<"}", NL, "{">> \o F_app_download_url \o <<"}", NL>>,
      <<"h", "i", NL>> \o M_body \o <<NL, "#", "x", NL, "{">> \o F_app_name \o <<"}">>,
      <<"n", "o", " ", "m", "a", "r", "k", "e", "r", "s">>,
      M_subject \o <<NL, "{", "w", "h", "o", "}">> }

(***************************************************************************)
(* upload_to_dropbox                                                       *)
(***************************************************************************)
\* '/{folder}/{file_name}'.format(...)
dropbox_path(dropbox_folder, target_file_name) ==
    <<"/">> \o dropbox_folder \o <<"/">> \o target_file_name

\* a request as posted and the response to it: its status and, if read, its JSON body
Request(url, data, status, json) == [url |-> url, data |-> data, status |-> status, json |-> json]

\* r.json()['url'][:-1] + '1'
direct_url(url) == drop_last(url) \o <<"1">>

\* only server errors taken as failures
failed_only_server_errors(status) == status >= 500

\* r.status_code != requests.codes.ok
failed(status) == status # codes_ok

\* what main does with a function's exception: the traceback ends the process
Uncaught(fn) ==
    /\ pc' = "exited"
    /\ raised' = fn
    /\ exit_code' = UNCAUGHT_EXIT

\* exit(code)
Exit(code) ==
    /\ pc' = "exited"
    /\ exit_code' = code
    /\ UNCHANGED raised

(***************************************************************************)
(* send_email                                                              *)
(***************************************************************************)
\* subject and body assigned to each other's key
zapier_send_data_swapped(to, subj, bod) == [to |-> to, subject |-> bod, body |-> subj]

\* the three assignments to ZAPIER_SEND_DATA
zapier_send_data(to, subj, bod) == [to |-> to, subject |-> subj, body |-> bod]

\* any 2xx status taken as success
send_ok_any_2xx(status) == status \in 200..299

\* r.status_code == requests.codes.ok
send_ok(status) == status = codes_ok

(***************************************************************************)
(* The script, one action per function call or remote request              *)
(***************************************************************************)
Init ==
    /\ pc = "get_app"
    /\ options \in [app_name : AppNames, email_to : EmailTo, dropbox_folder : Folders]
    /\ files \in [descriptor : {Unreadable} \cup {File(d) : d \in Descriptors},
                  artifact : {Unreadable, File("apk bytes")},
                  changelog : {Unreadable} \cup {File(d) : d \in ChangelogDocs},
                  template : {Unreadable} \cup {File(d) : d \in TemplateDocs}]
    /\ app_version = Unset
    /\ target_app_file = Unset
    /\ DROPBOX_UPLOAD_ARGS = [path |-> None, mode |-> "overwrite", autorename |-> TRUE,
                              strict_conflict |-> TRUE]
    /\ DROPBOX_SHARE_DATA = [path |-> None, requested_visibility |-> "public"]
    /\ DROPBOX_DELETE_DATA = [path |-> None]
    /\ ZAPIER_SEND_DATA = [to |-> None, subject |-> None, body |-> None]
    /\ http = <<>>
    /\ artifact_opened = FALSE
    /\ file_url = Unset
    /\ latest_changes = Unset
    /\ subject = Unset
    /\ body = Unset
    /\ sent = Unset
    /\ exit_code = Running
    /\ raised = ""
    /\ unit = [fn |-> "main"]

\* main: get_app and get_target_file_name
GetApp ==
    /\ pc = "get_app"
    /\ IF ~files.descriptor.ok
       THEN /\ Uncaught("get_app")
            /\ UNCHANGED <<app_version, target_app_file>>
       ELSE /\ app_version' = files.descriptor.data.versionName
            /\ target_app_file' = get_target_file_name(options.app_name, app_version')
            /\ pc' = "dropbox_delete"
            /\ UNCHANGED <<exit_code, raised>>
    /\ UNCHANGED <<options, files, DROPBOX_UPLOAD_ARGS, DROPBOX_SHARE_DATA,
                   DROPBOX_DELETE_DATA, ZAPIER_SEND_DATA, http, artifact_opened,
                   file_url, latest_changes, subject, body, sent, unit>>

\* the delete's status checked like the other two: a failed delete returns None
DropboxDelete_checked ==
    /\ pc = "dropbox_delete"
    /\ LET path == dropbox_path(options.dropbox_folder, target_app_file)
       IN  /\ DROPBOX_UPLOAD_ARGS' = [DROPBOX_UPLOAD_ARGS EXCEPT !.path = path]
           /\ DROPBOX_SHARE_DATA' = [DROPBOX_SHARE_DATA EXCEPT !.path = path]
           /\ DROPBOX_DELETE_DATA' = [DROPBOX_DELETE_DATA EXCEPT !.path = path]
    /\ \E st \in Statuses :
         /\ http' = Append(http, Request(DROPBOX_DELETE_URL, DROPBOX_DELETE_DATA'.path, st, None))
         /\ IF failed(st)
            THEN /\ file_url' = None
                 /\ pc' = "check_upload"
            ELSE /\ pc' = "dropbox_upload"
                 /\ UNCHANGED file_url
    /\ UNCHANGED <<options, files, app_version, target_app_file, ZAPIER_SEND_DATA,
                   artifact_opened, latest_changes, subject, body, sent,
                   exit_code, raised, unit>>

\* the artifact opened first: an unreadable artifact ends the run before the delete
DropboxDelete_after_open ==
    /\ pc = "dropbox_delete"
    /\ LET path == dropbox_path(options.dropbox_folder, target_app_file)
       IN  /\ DROPBOX_UPLOAD_ARGS' = [DROPBOX_UPLOAD_ARGS EXCEPT !.path = path]
           /\ DROPBOX_SHARE_DATA' = [DROPBOX_SHARE_DATA EXCEPT !.path = path]
           /\ DROPBOX_DELETE_DATA' = [DROPBOX_DELETE_DATA EXCEPT !.path = path]
    /\ IF ~files.artifact.ok
       THEN /\ Uncaught("open")
            /\ UNCHANGED http
       ELSE /\ \E st \in Statuses :
                 http' = Append(http, Request(DROPBOX_DELETE_URL, DROPBOX_DELETE_DATA'.path, st, None))
            /\ pc' = "dropbox_upload"
            /\ UNCHANGED <<exit_code, raised>>
    /\ UNCHANGED <<options, files, app_version, target_app_file, ZAPIER_SEND_DATA,
                   artifact_opened, file_url, latest_changes, subject, body, sent, unit>>

\* upload_to_dropbox: the three paths are set and the delete request is posted
DropboxDelete ==
    /\ pc = "dropbox_delete"
    /\ LET path == dropbox_path(options.dropbox_folder, target_app_file)
       IN  /\ DROPBOX_UPLOAD_ARGS' = [DROPBOX_UPLOAD_ARGS EXCEPT !.path = path]
           /\ DROPBOX_SHARE_DATA' = [DROPBOX_SHARE_DATA EXCEPT !.path = path]
           /\ DROPBOX_DELETE_DATA' = [DROPBOX_DELETE_DATA EXCEPT !.path = path]
    /\ \E st \in Statuses :
           http' = Append(http, Request(DROPBOX_DELETE_URL, DROPBOX_DELETE_DATA'.path, st, None))
    /\ pc' = "dropbox_upload"
    /\ UNCHANGED <<options, files, app_version, target_app_file, ZAPIER_SEND_DATA,
                   artifact_opened, file_url, latest_changes, subject, body, sent,
                   exit_code, raised, unit>>

\* upload_to_dropbox: the artifact is opened and the upload request is posted
DropboxUpload ==
    /\ pc = "dropbox_upload"
    /\ IF ~files.artifact.ok
       THEN /\ Uncaught("open")
            /\ UNCHANGED <<http, artifact_opened, file_url>>
       ELSE /\ artifact_opened' = TRUE
            /\ \E st \in Statuses :
                 /\ http' = Append(http, Request(DROPBOX_UPLOAD_URL, DROPBOX_UPLOAD_ARGS.path, st, None))
                 /\ IF failed(st)
                    THEN /\ file_url' = None
                         /\ pc' = "check_upload"
                    ELSE /\ pc' = "dropbox_share"
                         /\ UNCHANGED file_url
            /\ UNCHANGED <<exit_code, raised>>
    /\ UNCHANGED <<options, files, app_version, target_app_file, DROPBOX_UPLOAD_ARGS,
                   DROPBOX_SHARE_DATA, DROPBOX_DELETE_DATA, ZAPIER_SEND_DATA,
                   latest_changes, subject, body, sent, unit>>

\* upload_to_dropbox: the share-link request is posted and its url rewritten
DropboxShare ==
    /\ pc = "dropbox_share"
    /\ \E st \in Statuses, js \in ShareBodies :
         /\ http' = Append(http, Request(DROPBOX_SHARE_URL, DROPBOX_SHARE_DATA.path, st,
                                        IF failed(st) THEN None ELSE js))
         /\ IF failed(st)
            THEN /\ file_url' = None
                 /\ pc' = "check_upload"
                 /\ UNCHANGED <<exit_code, raised>>
            ELSE IF ~js.has_url
                 THEN /\ Uncaught("json")
                      /\ UNCHANGED file_url
                 ELSE /\ file_url' = direct_url(js.url)
                      /\ pc' = "check_upload"
                      /\ UNCHANGED <<exit_code, raised>>
    /\ UNCHANGED <<options, files, app_version, target_app_file, DROPBOX_UPLOAD_ARGS,
                   DROPBOX_SHARE_DATA, DROPBOX_DELETE_DATA, ZAPIER_SEND_DATA,
                   artifact_opened, latest_changes, subject, body, sent, unit>>

\* the None check left out: main goes on to the changelog whatever the upload returned
MainCheckUpload_no_exit ==
    /\ pc = "check_upload"
    /\ pc' = "get_changes"
    /\ UNCHANGED <<options, files, app_version, target_app_file, DROPBOX_UPLOAD_ARGS,
                   DROPBOX_SHARE_DATA, DROPBOX_DELETE_DATA, ZAPIER_SEND_DATA, http,
                   artifact_opened, file_url, latest_changes, subject, body, sent,
                   exit_code, raised, unit>>

\* main: if (file_url == None): exit(DROPBOX_ERROR_CODE)
MainCheckUpload ==
    /\ pc = "check_upload"
    /\ IF file_url = None
       THEN Exit(DROPBOX_ERROR_CODE)
       ELSE /\ pc' = "get_changes"
            /\ UNCHANGED <<exit_code, raised>>
    /\ UNCHANGED <<options, files, app_version, target_app_file, DROPBOX_UPLOAD_ARGS,
                   DROPBOX_SHARE_DATA, DROPBOX_DELETE_DATA, ZAPIER_SEND_DATA, http,
                   artifact_opened, file_url, latest_changes, subject, body, sent, unit>>

\* main: get_changes and its None check
GetChanges ==
    /\ pc = "get_changes"
    /\ LET r == get_changes(files.changelog)
       IN  IF r = Raise
           THEN /\ Uncaught("get_changes")
                /\ UNCHANGED latest_changes
           ELSE /\ latest_changes' = r
                /\ IF r = None
                   THEN Exit(CHANGES_ERROR_CODE)
                   ELSE /\ pc' = "get_email"
                        /\ UNCHANGED <<exit_code, raised>>
    /\ UNCHANGED <<options, files, app_version, target_app_file, DROPBOX_UPLOAD_ARGS,
                   DROPBOX_SHARE_DATA, DROPBOX_DELETE_DATA, ZAPIER_SEND_DATA, http,
                   artifact_opened, file_url, subject, body, sent, unit>>

\* main: get_email and its None check
GetEmail ==
    /\ pc = "get_email"
    /\ LET r == get_email(options.app_name, app_version, file_url, latest_changes,
                          files.template)
       IN  IF r = Raise
           THEN /\ Uncaught("get_email")
                /\ UNCHANGED <<subject, body>>
           ELSE /\ subject' = r[1]
                /\ body' = r[2]
                /\ IF r[1] = None \/ r[2] = None
                   THEN Exit(TEMPLATE_ERROR_CODE)
                   ELSE /\ pc' = "send_email"
                        /\ UNCHANGED <<exit_code, raised>>
    /\ UNCHANGED <<options, files, app_version, target_app_file, DROPBOX_UPLOAD_ARGS,
                   DROPBOX_SHARE_DATA, DROPBOX_DELETE_DATA, ZAPIER_SEND_DATA, http,
                   artifact_opened, file_url, latest_changes, sent, unit>>

\* main: send_email, exit(ZAPIER_ERROR_CODE) if it fails, else the script ends
SendEmail ==
    /\ pc = "send_email"
    /\ ZAPIER_SEND_DATA' = zapier_send_data(options.email_to, subject, body)
    /\ \E st \in Statuses :
         /\ http' = Append(http, Request(ZAPIER_HOOK, ZAPIER_SEND_DATA', st, None))
         /\ sent' = send_ok(st)
    /\ IF ~sent' THEN Exit(ZAPIER_ERROR_CODE) ELSE Exit(SUCCESS_EXIT)
    /\ UNCHANGED <<options, files, app_version, target_app_file, DROPBOX_UPLOAD_ARGS,
                   DROPBOX_SHARE_DATA, DROPBOX_DELETE_DATA, artifact_opened, file_url,
                   latest_changes, subject, body, unit>>

Next ==
    \/ GetApp
    \/ DropboxDelete
    \/ DropboxUpload
    \/ DropboxShare
    \/ MainCheckUpload
    \/ GetChanges
    \/ GetEmail
    \/ SendEmail

Spec == Init /\ [][Next]_vars

(***************************************************************************)
(* Single calls of the three text functions, over all small inputs         *)
(***************************************************************************)
MaxNameLen == 2
MaxVersionLen == 2
MaxDocLen == 4
MaxTemplateLines == 3

\* all strings over alphabet of length at most n
Strs(alphabet, n) == UNION { [1..k -> alphabet] : k \in 0..n }

\* the script's variables while one function is called on its own
NotRunning ==
    /\ pc = "unit"
    /\ options = Unset
    /\ files = Unset
    /\ app_version = Unset
    /\ target_app_file = Unset
    /\ DROPBOX_UPLOAD_ARGS = [path |-> None, mode |-> "overwrite", autorename |-> TRUE,
                              strict_conflict |-> TRUE]
    /\ DROPBOX_SHARE_DATA = [path |-> None, requested_visibility |-> "public"]
    /\ DROPBOX_DELETE_DATA = [path |-> None]
    /\ ZAPIER_SEND_DATA = [to |-> None, subject |-> None, body |-> None]
    /\ http = <<>>
    /\ artifact_opened = FALSE
    /\ file_url = Unset
    /\ latest_changes = Unset
    /\ subject = Unset
    /\ body = Unset
    /\ sent = Unset
    /\ exit_code = Running
    /\ raised = ""

main_vars == <<pc, options, files, app_version, target_app_file, DROPBOX_UPLOAD_ARGS,
               DROPBOX_SHARE_DATA, DROPBOX_DELETE_DATA, ZAPIER_SEND_DATA, http,
               artifact_opened, file_url, latest_changes, subject, body, sent,
               exit_code, raised>>

Call(fn, args) == [fn |-> fn, args |-> args, ret |-> Unset]
Returned == unit.fn # "main" /\ unit.ret # Unset

\* ---- get_target_file_name ----
NameInputs == Strs({"A", "b", " ", "."}, MaxNameLen)
                  \cup { <<"M", "y", "A", "p", "p">>, <<"C", "o", "o", "l", " ", "A", "p", "p">> }
VersionInputs == Strs({"1", ".", " ", "B"}, MaxVersionLen)
                  \cup { <<"1", ".", "0", "3">>, <<"2", ".", "0", ".", "1">> }

InitName ==
    /\ NotRunning
    /\ unit \in { Call("get_target_file_name", <<n, v>>) : n \in NameInputs, v \in VersionInputs }

CallGetTargetFileName ==
    /\ unit.fn = "get_target_file_name"
    /\ unit.ret = Unset
    /\ unit' = [unit EXCEPT !.ret = get_target_file_name(unit.args[1], unit.args[2])]
    /\ UNCHANGED main_vars

SpecName == InitName /\ [][CallGetTargetFileName]_vars

\* ---- get_changes ----
DocInputs == Strs({"a", "#", NL}, MaxDocLen)
                 \cup { <<"n","o","t","e","s"," ","A",NL,"#","#",NL,"n","o","t","e","s"," ","B">>,
                        <<"#"," ","R","e","l","e","a","s","e",NL,"F","i","x","e","d"," ","b","u","g",
                          NL,"#","#",NL,"o","l","d">> }

InitChanges ==
    /\ NotRunning
    /\ unit \in { Call("get_changes", <<File(d)>>) : d \in DocInputs }

CallGetChanges ==
    /\ unit.fn = "get_changes"
    /\ unit.ret = Unset
    /\ unit' = [unit EXCEPT !.ret = get_changes(unit.args[1])]
    /\ UNCHANGED main_vars

SpecChanges == InitChanges /\ [][CallGetChanges]_vars

\* ---- get_email ----
TemplateLines ==
    { M_subject,
      M_body,
      M_subject \o <<"s", " ", "x">>,
      <<"#", "s", "u", "b">>,
      <<"#", " ", "n">>,
      <<" ">> \o M_body,
      <<"t", " ">>,
      <<>>,
      <<"{">> \o F_app_name \o <<"}", "{", "{", "}", "}">>,
      <<"{">> \o F_change_log \o <<"}">> }

\* '\n'.join(lines)
RECURSIVE join_lines(_)
join_lines(lines) ==
    IF lines = <<>> THEN <<>>
    ELSE IF Len(lines) = 1 THEN Head(lines)
    ELSE Head(lines) \o <<NL>> \o join_lines(Tail(lines))

TemplateInputs == { join_lines(ls) : ls \in Strs(TemplateLines, MaxTemplateLines) }
                      \cup { <<"{", "x", "}">>, <<"a", "}">> }
ChangesInputs == { <<"c">>, <<"c", NL>> \o M_body \o <<NL, "d", NL>> }

InitEmail ==
    /\ NotRunning
    /\ unit \in { Call("get_email", << <<"F", CR, "o">>, <<"1", ".", "0">>, <<"u", "1">>, c, File(t) >>) :
                    c \in ChangesInputs, t \in TemplateInputs }

CallGetEmail ==
    /\ unit.fn = "get_email"
    /\ unit.ret = Unset
    /\ unit' = [unit EXCEPT !.ret = get_email(unit.args[1], unit.args[2], unit.args[3],
                                              unit.args[4], unit.args[5])]
    /\ UNCHANGED main_vars

SpecEmail == InitEmail /\ [][CallGetEmail]_vars

(***************************************************************************)
(* Properties of a run                                                     *)
(***************************************************************************)
Posts(url) == { i \in 1..Len(http) : http[i].url = url }
NonSuccess(i) == http[i].status # codes_ok
UploadFailed == \E i \in Posts(DROPBOX_UPLOAD_URL) : NonSuccess(i)
ShareFailed == \E i \in Posts(DROPBOX_SHARE_URL) : NonSuccess(i)
Exited == pc = "exited"
\* the path the run's inputs determine
InputPath ==
    dropbox_path(options.dropbox_folder,
                 get_target_file_name(options.app_name, files.descriptor.data.versionName))
Urls == [i \in 1..Len(http) |-> http[i].url]
IsPrefix(s, t) == Len(s) <= Len(t) /\ s = SubSeq(t, 1, Len(s))

\* C1: once the upload call or the share-link call has reported a non-success
\* status, upload_to_dropbox's result is None, the run can only stand at main's
\* check of that result or have ended, it ends with exit code 1 and without an
\* exception, no webhook POST is in the log, and after a failed upload no
\* share-link request is in the log either.
C1_UploadFailureExits1 ==
    (UploadFailed \/ ShareFailed) =>
        /\ file_url = None
        /\ pc \in {"check_upload", "exited"}
        /\ raised = ""
        /\ (Exited => exit_code = 1)
        /\ (~Exited => exit_code = Running)
        /\ Posts(ZAPIER_HOOK) = {}
        /\ (UploadFailed => Posts(DROPBOX_SHARE_URL) = {})

C1_Witness ==
    /\ Exited
    /\ ShareFailed
    /\ ~UploadFailed
    /\ exit_code = 1

\* C2: a run that has ended with the upload, share-link and webhook calls all
\* reporting success has exit code 0, and the webhook's JSON body holds the
\* subject and body get_email gives for the run's inputs (app name, descriptor
\* version, rewritten share url, extracted changelog, template) and the --email.to
\* value as 'to'.
C2_SuccessPostsRenderedEmail ==
    (/\ Exited
     /\ \E i \in Posts(DROPBOX_UPLOAD_URL) : ~NonSuccess(i)
     /\ \E i \in Posts(DROPBOX_SHARE_URL) : ~NonSuccess(i)
     /\ \E i \in Posts(ZAPIER_HOOK) : ~NonSuccess(i))
    => /\ exit_code = 0
       /\ raised = ""
       /\ LET share == http[CHOOSE i \in Posts(DROPBOX_SHARE_URL) : TRUE]
              hook == http[CHOOSE i \in Posts(ZAPIER_HOOK) : TRUE]
              email == get_email(options.app_name, files.descriptor.data.versionName,
                                 direct_url(share.json.url), get_changes(files.changelog),
                                 files.template)
          IN  /\ email # Raise
              /\ hook.data.subject = email[1]
              /\ hook.data.body = email[2]
              /\ hook.data.to = options.email_to

C2_Witness ==
    /\ Exited
    /\ exit_code = 0
    /\ Posts(ZAPIER_HOOK) # {}
    /\ subject # <<>>
    /\ body # <<>>
    /\ subject # body

C4_NoExit3Or4 ==
    /\ exit_code \notin {TEMPLATE_ERROR_CODE, CHANGES_ERROR_CODE}
    /\ latest_changes # None
    /\ subject # None
    /\ body # None
    /\ (Exited => exit_code \in {0, 1, 2})

C4_Witness ==
    /\ Exited
    /\ latest_changes = <<>>
    /\ subject = <<>>
    /\ body = <<>>
    /\ exit_code = 0

\* C5: the Dropbox requests in the log are a prefix of delete, upload,
\* create-shared-link, each for the path '/{folder}/{filename}' of the run's
\* inputs; a share-link request follows only an upload that reported success; no
\* run ends right after the delete unless opening the artifact raised; and
\* upload_to_dropbox's result is None exactly when the upload or the share-link
\* call failed, whatever the delete's status was.
C5_DeleteUploadShareInOrder ==
    LET dropbox == SelectSeq(Urls, LAMBDA u : u # ZAPIER_HOOK)
    IN  /\ IsPrefix(dropbox, <<DROPBOX_DELETE_URL, DROPBOX_UPLOAD_URL, DROPBOX_SHARE_URL>>)
        /\ IsPrefix(dropbox, Urls)
        /\ \A i \in 1..Len(dropbox) : http[i].data = InputPath
        /\ (Len(http) >= 3 => http[2].status = codes_ok)
        /\ (Exited /\ Len(http) = 1 => raised = "open")
        /\ (artifact_opened => Len(http) >= 2)
        /\ (pc = "check_upload" => (file_url = None) = (UploadFailed \/ ShareFailed))

C5_Witness ==
    /\ Len(http) >= 3
    /\ http[1].status # codes_ok
    /\ http[3].status = codes_ok
    /\ file_url \notin {None, Unset}

\* C9: the delete request for the target path is the first request of every run
\* that reaches upload_to_dropbox, in the log before the artifact is opened and
\* before the upload request; so a run that ended because the artifact could not
\* be opened or because the upload reported non-success has issued the delete and
\* no upload that succeeded.
C9_DeleteBeforeOpenAndUpload ==
    /\ (pc = "dropbox_upload" =>
            ~artifact_opened /\ Urls = <<DROPBOX_DELETE_URL>> /\ http[1].data = InputPath)
    /\ (artifact_opened \/ raised = "open" \/ Posts(DROPBOX_UPLOAD_URL) # {}) =>
            /\ Len(http) >= 1
            /\ http[1].url = DROPBOX_DELETE_URL
            /\ http[1].data = InputPath
    /\ (Exited /\ (raised = "open" \/ UploadFailed)) =>
            /\ Posts(DROPBOX_DELETE_URL) = {1}
            /\ \A i \in Posts(DROPBOX_UPLOAD_URL) : NonSuccess(i)
            /\ (UploadFailed => exit_code = DROPBOX_ERROR_CODE)

C9_Witness ==
    /\ Exited
    /\ raised = "open"
    /\ Urls = <<DROPBOX_DELETE_URL>>

\* C10: get_changes and get_email run only after the upload and the share-link
\* call both reported success; a run ended by an exception of get_changes or
\* get_email holds exactly the delete, upload and share-link requests in its log
\* and no webhook POST.
C10_FilesReadAfterUpload ==
    /\ (\/ pc \in {"get_changes", "get_email", "send_email"}
        \/ latest_changes # Unset
        \/ subject # Unset
        \/ raised \in {"get_changes", "get_email"})
       => /\ IsPrefix(<<DROPBOX_DELETE_URL, DROPBOX_UPLOAD_URL, DROPBOX_SHARE_URL>>, Urls)
          /\ http[2].status = codes_ok
          /\ http[3].status = codes_ok
    /\ raised \in {"get_changes", "get_email"} =>
          /\ Exited
          /\ Urls = <<DROPBOX_DELETE_URL, DROPBOX_UPLOAD_URL, DROPBOX_SHARE_URL>>

C10_Witness ==
    /\ Exited
    /\ raised = "get_email"
    /\ files.template.ok
    /\ Len(http) = 3

(***************************************************************************)
(* Properties of the text functions                                        *)
(***************************************************************************)
without_spaces(s) == SelectSeq(s, LAMBDA c : c # " ")
dots_as_underscores(s) == [i \in 1..Len(s) |-> IF s[i] = "." THEN "_" ELSE s[i]]

\* C8: get_target_file_name(appName, versionName) is the lowercase app name, an
\* underscore, the version with every '.' replaced by '_', and '.apk', with every
\* space removed: no space is left, and the result is the space-free lowercase
\* name, '_', the space-free version with underscores for dots, '.apk'.
\* ("MyApp","1.03") gives "myapp_1_03.apk", ("Cool App","2.0.1") gives
\* "coolapp_2_0_1.apk".
C8_TargetFileName ==
    (unit.fn = "get_target_file_name" /\ Returned) =>
        LET name == unit.args[1]
            version == unit.args[2]
        IN  /\ \A i \in 1..Len(unit.ret) : unit.ret[i] # " "
            /\ unit.ret = without_spaces(lower(name)) \o <<"_">>
                              \o without_spaces(dots_as_underscores(version))
                              \o <<".", "a", "p", "k">>
            /\ (name = <<"M", "y", "A", "p", "p">> /\ version = <<"1", ".", "0", "3">>
                  => unit.ret = <<"m","y","a","p","p","_","1","_","0","3",".","a","p","k">>)
            /\ (name = <<"C", "o", "o", "l", " ", "A", "p", "p">>
                   /\ version = <<"2", ".", "0", ".", "1">>
                  => unit.ret = <<"c","o","o","l","a","p","p","_","2","_","0","_","1",
                                  ".","a","p","k">>)

C8_Witness ==
    /\ unit.fn = "get_target_file_name"
    /\ Returned
    /\ unit.args = << <<"C", "o", "o", "l", " ", "A", "p", "p">>, <<"2", ".", "0", ".", "1">> >>
    /\ unit.ret = <<"c","o","o","l","a","p","p","_","2","_","0","_","1",".","a","p","k">>

\* the extraction as the changelog's format describes it: the first segment
\* without its trailing newline, if it has one, and without its heading lines
changes_without_trailing_newline(doc) ==
    LET segment == split_first(doc, <<"#", "#">>)
        trimmed == IF segment # <<>> /\ segment[Len(segment)] = NL
                   THEN drop_last(segment) ELSE segment
    IN  re_sub_headings(trimmed)

\* C7: for every changelog document get_changes returns the first segment of
\* the split on '##' with that segment's trailing newline dropped and every line
\* that starts with '#' removed.
C7_TrailingNewlineDropped ==
    (unit.fn = "get_changes" /\ Returned) =>
        unit.ret = changes_without_trailing_newline(unit.args[1].data)

\* the lines of the rendered template, the section each belongs to and the
\* sections the scan yields, stated line by line
IsMarker(line) == startswith(line, M_subject) \/ startswith(line, M_body)
Markers(lines, i) == { j \in 1..(i - 1) : IsMarker(lines[j]) }
LastMarker(lines, i) == CHOOSE j \in Markers(lines, i) : \A k \in Markers(lines, i) : k <= j
\* the section active at line i: that of the last marker line before it
Active(lines, i) ==
    IF Markers(lines, i) = {} THEN "none"
    ELSE IF startswith(lines[LastMarker(lines, i)], M_subject) THEN "subject" ELSE "body"

\* the lines of one section, each with a newline, in order; heading_lines_kept says
\* whether a line starting with '#' that is no marker counts as a line of text
RECURSIVE Section(_, _, _, _)
Section(lines, i, which, heading_lines_kept) ==
    IF i > Len(lines) THEN <<>>
    ELSE LET emitted == /\ ~IsMarker(lines[i])
                        /\ (heading_lines_kept \/ ~startswith(lines[i], <<"#">>))
                        /\ Active(lines, i) = which
         IN  (IF emitted THEN lines[i] \o <<NL>> ELSE <<>>)
                 \o Section(lines, i + 1, which, heading_lines_kept)

\* the rendered template of a get_email call, Raise if rendering raises
Rendered ==
    format(unit.args[5].data,
           format_fields(unit.args[1], unit.args[2], unit.args[3], unit.args[4]))

\* C6 as stated: every line that is no marker line is appended to the active
\* section; lines before a marker are discarded; the results are the sections
\* with trailing whitespace trimmed.
C6_EveryOtherLineAppended ==
    (unit.fn = "get_email" /\ Returned /\ unit.ret # Raise) =>
        LET lines == splitlines(Rendered)
        IN  /\ unit.ret[1] = rstrip(Section(lines, 1, "subject", TRUE))
            /\ unit.ret[2] = rstrip(Section(lines, 1, "body", TRUE))

\* C6 amended: a line beginning with '#subject' or '#body' switches the active
\* section and is not emitted; every other line beginning with '#' is discarded
\* and switches nothing; a line not beginning with '#' is appended with a newline
\* to the active section, or discarded if no marker came before it; the results
\* are the sections with trailing whitespace trimmed.
C6_LineScan ==
    (unit.fn = "get_email" /\ Returned /\ unit.ret # Raise) =>
        LET lines == splitlines(Rendered)
        IN  /\ unit.ret[1] = rstrip(Section(lines, 1, "subject", FALSE))
            /\ unit.ret[2] = rstrip(Section(lines, 1, "body", FALSE))

C6_Witness ==
    /\ unit.fn = "get_email"
    /\ Returned
    /\ unit.ret # Raise
    /\ (unit.ret[1] # <<>> \/ unit.ret[2] # <<>>)
    /\ LET lines == splitlines(Rendered)
       IN  /\ Len(lines) >= 2
           /\ ~startswith(lines[1], <<"#">>)
           /\ \E i \in 1..Len(lines) :
                 /\ startswith(lines[i], <<"#">>)
                 /\ ~IsMarker(lines[i])
                 /\ Active(lines, i) # "none"

====
